---- MODULE Spec2Model ----
(***************************************************************************)
(* Model of the Minesweeper board engine (game_logic.py, class             *)
(* MinesweeperLogic) driven by a caller that follows the placement         *)
(* protocol of gui.py (mines are placed once, while first_move is set).    *)
(*                                                                         *)
(* Cells are tuples <<x, y>> with 0 <= x < width and 0 <= y < height, as   *)
(* the (x, y) tuples of the source.  grid is indexed grid[y][x] as in the  *)
(* source.                                                                 *)
(***************************************************************************)
EXTENDS Integers, Sequences, FiniteSets, TLC

\* ---------------------------------------------------------------- bounds
MaxWidth == 3
MaxHeight == 3
MaxMines == 1
MaxFlags == 1
\* board sizes of the snapshot, out-of-range and GUI specifications
SmallWidth == 3
SmallHeight == 2
\* calls followed after a snapshot was taken
MaxCallsAfterSnapshot == 2
\* calls made with a coordinate outside the grid
MaxOutOfRangeCalls == 1
\* boards played through the window
GuiWidth == 4
GuiHeight == 1
\* seconds counted by the display timer
MaxTime == 2
\* update_timer callbacks scheduled at the same time
MaxTimers == 2
\* times the save file is written
MaxSaves == 1
\* clicks and button presses handled after the save file was written
MaxEventsAfterSave == 2
\* seconds a won game can have taken
MaxScoreTime == 2
\* boards on which the loop of reveal_square is run step by step
LoopWidth == 3
LoopHeight == 2
\* boards called with coordinates outside the grid
AnyWidth == 2
AnyHeight == 1

\* ----------------------------------------------------------------- state
VARIABLES
    width, height, num_mines,   \* MinesweeperLogic.width / height / num_mines
    grid,                       \* MinesweeperLogic.grid  (grid[y][x])
    mine_positions,             \* MinesweeperLogic.mine_positions
    first_move,                 \* MinesweeperLogic.first_move
    revealed,                   \* MinesweeperLogic.revealed
    flagged,                    \* MinesweeperLogic.flagged
    game_over, won,             \* MinesweeperLogic.game_over / won
    mines_remaining,            \* MinesweeperLogic.mines_remaining
    last,                       \* the last call made on the board: its name,
                                \* arguments, return value and the values of
                                \* revealed / flagged / mines_remaining
                                \* when it was entered
    game_time,                  \* MinesweeperLogic.game_time
    snapshot,                   \* the dict returned by get_save_state
    copy,                       \* a second board, filled by load_save_state
    calls_after,                \* calls made since the snapshot was taken
    out_of_range_calls,         \* calls made with a coordinate outside the grid
    value,                      \* the integer the last get_value returned
    error,                      \* the exception the last call raised
    game_logic,                 \* MinesweeperGUI.game_logic: "None" or the
                                \* board above
    screen,                     \* the widgets on the root window: "menu" or
                                \* "board"
    gui_game_time,              \* MinesweeperGUI.game_time
    timer_id,                   \* MinesweeperGUI.timer_id is not None
    pending,                    \* update_timer callbacks scheduled with
                                \* root.after and not yet run or cancelled
    save_file,                  \* the save file written by do_save
    events_after_save,          \* handlers run since the file was written
    message,                    \* the title of the last message box shown
    scores,                     \* HighScores.scores["Easy"]
    score_call,                 \* the last add_score call: its entry, its
                                \* return value, and whether the entry it
                                \* appended is in the list it left
    pc,                         \* where a reveal_square call run step by
                                \* step stands: "idle", "loop" or "done"
    frontier,                   \* the list 'stack' of reveal_square
    loop_newly,                 \* the set newly_revealed of reveal_square
    iterations,                 \* passes through the body of its while loop
    pushed,                     \* every cell put on the list, in order
    code_order                  \* every pop so far took the end of the list

dims == <<width, height, num_mines>>
layout == <<grid, mine_positions>>
status == <<game_over, won>>
gui == <<game_logic, screen, gui_game_time, timer_id, pending, save_file,
         events_after_save, message>>
high_scores == <<scores, score_call>>
loop == <<pc, frontier, loop_newly, iterations, pushed, code_order>>
other == <<game_time, snapshot, copy, calls_after, out_of_range_calls,
           value, error, gui, high_scores, loop>>
vars == <<width, height, num_mines, grid, mine_positions, first_move,
          revealed, flagged, game_over, won, mines_remaining, last,
          game_time, snapshot, copy, calls_after, out_of_range_calls, value,
          error, game_logic, screen, gui_game_time, timer_id, pending,
          save_file, events_after_save, message, scores, score_call,
          pc, frontier, loop_newly, iterations, pushed, code_order>>

\* --------------------------------------------------------------- helpers
\* all (x, y) with x in range(width), y in range(height)
Cells == (0..(width - 1)) \X (0..(height - 1))

\* for dx in [-1, 0, 1]: for dy in [-1, 0, 1]   (iteration order of the source)
Offsets ==
    << <<-1, -1>>, <<-1, 0>>, <<-1, 1>>,
       <<0, -1>>,  <<0, 0>>,  <<0, 1>>,
       <<1, -1>>,  <<1, 0>>,  <<1, 1>> >>

\* get_adjacent_squares: the list of in-bounds neighbours, in source order
get_adjacent_squares(x, y) ==
    LET Keep(o) == /\ 0 <= x + o[1] /\ x + o[1] < width
                   /\ 0 <= y + o[2] /\ y + o[2] < height
                   /\ o # <<0, 0>>
        kept == SelectSeq(Offsets, Keep)
    IN  [i \in 1..Len(kept) |-> <<x + kept[i][1], y + kept[i][2]>>]

Range(s) == {s[i] : i \in 1..Len(s)}

\* mutant: only the four orthogonal neighbours are counted
count_adjacent_mines_orthogonal(x, y, mines) ==
    Cardinality({i \in 1..Len(Offsets) :
        /\ 0 <= x + Offsets[i][1] /\ x + Offsets[i][1] < width
        /\ 0 <= y + Offsets[i][2] /\ y + Offsets[i][2] < height
        /\ Offsets[i] # <<0, 0>>
        /\ (Offsets[i][1] = 0 \/ Offsets[i][2] = 0)
        /\ <<x + Offsets[i][1], y + Offsets[i][2]>> \in mines})

\* count_adjacent_mines against a given mine set
count_adjacent_mines(x, y, mines) ==
    Cardinality({i \in 1..Len(Offsets) :
        /\ 0 <= x + Offsets[i][1] /\ x + Offsets[i][1] < width
        /\ 0 <= y + Offsets[i][2] /\ y + Offsets[i][2] < height
        /\ Offsets[i] # <<0, 0>>
        /\ <<x + Offsets[i][1], y + Offsets[i][2]>> \in mines})

Min(a, b) == IF a <= b THEN a ELSE b

\* mutant: the neighbours of the clicked cell are left out of the safe zone
safe_zone_clicked_only(x, y) == {<<x, y>>}

\* safe_zone of place_mines
safe_zone(x, y) == Range(get_adjacent_squares(x, y)) \cup {<<x, y>>}

\* mutant: only the clicked cell is excluded from the candidates
available_positions_all_but_clicked(x, y) == {c \in Cells : c # <<x, y>>}

\* available_positions of place_mines
available_positions(x, y) == {c \in Cells : c \notin safe_zone(x, y)}

\* number of mines random.sample is asked for
sample_size(x, y) == Min(num_mines, Cardinality(available_positions(x, y)))

\* the grid after the two loops of place_mines for the selected mines
computed_grid(mines) ==
    LET g1 == [y \in 0..(height - 1) |-> [x \in 0..(width - 1) |->
                  IF <<x, y>> \in mines THEN -1 ELSE grid[y][x]]]
    IN  [y \in 0..(height - 1) |-> [x \in 0..(width - 1) |->
            IF <<x, y>> \notin mines
            THEN count_adjacent_mines(x, y, mines)
            ELSE g1[y][x]]]

\* mutant: every newly revealed neighbour is pushed, zero-valued or not
RECURSIVE flood_expand_all(_, _, _)
flood_expand_all(stack, rev, newly) ==
    IF stack = <<>> THEN [revealed |-> rev, newly_revealed |-> newly]
    ELSE
        LET curr == stack[Len(stack)]
            rest == SubSeq(stack, 1, Len(stack) - 1)
            adj  == get_adjacent_squares(curr[1], curr[2])
            Fresh(a) == a \notin rev /\ a \notin flagged
            fresh == SelectSeq(adj, Fresh)
        IN  flood_expand_all(rest \o fresh, rev \cup Range(fresh),
                             newly \cup Range(fresh))

\* mutant: the flood does not skip flagged neighbours
RECURSIVE flood_ignore_flags(_, _, _)
flood_ignore_flags(stack, rev, newly) ==
    IF stack = <<>> THEN [revealed |-> rev, newly_revealed |-> newly]
    ELSE
        LET curr == stack[Len(stack)]
            rest == SubSeq(stack, 1, Len(stack) - 1)
            adj  == get_adjacent_squares(curr[1], curr[2])
            Fresh(a) == a \notin rev
            fresh == SelectSeq(adj, Fresh)
            Zero(a) == grid[a[2]][a[1]] = 0
            push == SelectSeq(fresh, Zero)
        IN  flood_ignore_flags(rest \o push, rev \cup Range(fresh),
                               newly \cup Range(fresh))

\* mutant: the neighbours of the clicked cell are revealed and none of
\* them is pushed
flood_clicked_cell_only(stack, rev, newly) ==
    LET curr == stack[Len(stack)]
        adj  == get_adjacent_squares(curr[1], curr[2])
        Fresh(a) == a \notin rev /\ a \notin flagged
        fresh == SelectSeq(adj, Fresh)
    IN  [revealed |-> rev \cup Range(fresh),
         newly_revealed |-> newly \cup Range(fresh)]

\* the flood loop of reveal_square: stack is popped from its end, the
\* neighbours of the popped cell are examined in list order
RECURSIVE flood(_, _, _)
flood(stack, rev, newly) ==
    IF stack = <<>> THEN [revealed |-> rev, newly_revealed |-> newly]
    ELSE
        LET curr == stack[Len(stack)]
            rest == SubSeq(stack, 1, Len(stack) - 1)
            adj  == get_adjacent_squares(curr[1], curr[2])
            Fresh(a) == a \notin rev /\ a \notin flagged
            fresh == SelectSeq(adj, Fresh)
            Zero(a) == grid[a[2]][a[1]] = 0
            push == SelectSeq(fresh, Zero)
        IN  flood(rest \o push, rev \cup Range(fresh), newly \cup Range(fresh))

\* mutant: the clicked cell is revealed but left out of the returned set
reveal_result_forgets_target(x, y) ==
    IF <<x, y>> \in revealed \/ <<x, y>> \in flagged
    THEN [revealed |-> revealed, newly_revealed |-> {}]
    ELSE IF grid[y][x] = 0
         THEN flood(<< <<x, y>> >>, revealed \cup {<<x, y>>}, {})
         ELSE [revealed |-> revealed \cup {<<x, y>>},
               newly_revealed |-> {}]

\* mutant: the early return tests revealed only, a flagged cell is revealed
reveal_result_no_flag_guard(x, y) ==
    IF <<x, y>> \in revealed
    THEN [revealed |-> revealed, newly_revealed |-> {}]
    ELSE IF grid[y][x] = 0
         THEN flood(<< <<x, y>> >>, revealed \cup {<<x, y>>}, {<<x, y>>})
         ELSE [revealed |-> revealed \cup {<<x, y>>},
               newly_revealed |-> {<<x, y>>}]

\* the result of reveal_square(x, y): the new revealed set and the return value
reveal_result(x, y) ==
    IF <<x, y>> \in revealed \/ <<x, y>> \in flagged
    THEN [revealed |-> revealed, newly_revealed |-> {}]
    ELSE IF grid[y][x] = 0
         THEN flood(<< <<x, y>> >>, revealed \cup {<<x, y>>}, {<<x, y>>})
         ELSE [revealed |-> revealed \cup {<<x, y>>},
               newly_revealed |-> {<<x, y>>}]

\* the record of a call
Call(op, x, y, flag, cells) ==
    [op |-> op, x |-> x, y |-> y, flag |-> flag, cells |-> cells,
     pre_revealed |-> revealed, pre_flagged |-> flagged,
     pre_mines_remaining |-> mines_remaining]

\* ------------------------------------------------------------------ Init
\* no snapshot taken yet
NoSnapshot ==
    [taken |-> FALSE, width |-> 0, height |-> 0, num_mines |-> 0,
     mine_positions |-> <<>>, first_move |-> TRUE, revealed |-> <<>>,
     flagged |-> <<>>, game_over |-> FALSE, won |-> FALSE, game_time |-> 0,
     mines_remaining |-> 0, grid_at_call |-> <<>>]

\* no save file yet
NoSaveFile ==
    [exists |-> FALSE, writes |-> 0, edited |-> FALSE,
     width |-> 0, height |-> 0,
     num_mines |-> 0, grid |-> <<>>, mine_positions |-> <<>>,
     first_move |-> TRUE, revealed |-> <<>>, flagged |-> <<>>,
     game_over |-> FALSE, won |-> FALSE, game_time |-> 0,
     mines_remaining |-> 0]

\* no reveal_square call is run step by step
NoLoop ==
    /\ pc = "idle"
    /\ frontier = <<>>
    /\ loop_newly = {}
    /\ iterations = 0
    /\ pushed = <<>>
    /\ code_order = TRUE

\* add_score has not been called
NoScoreCall ==
    [called |-> FALSE, returned |-> FALSE, kept |-> FALSE,
     entry |-> [time |-> 0, date |-> "", board_size |-> "", mines |-> 0]]

\* the fields of MinesweeperGUI after __init__, before any game is started
\* and with no scores file on disk
NoGame ==
    /\ screen = "menu"
    /\ gui_game_time = -1
    /\ timer_id = FALSE
    /\ pending = 0
    /\ save_file = NoSaveFile
    /\ events_after_save = 0
    /\ scores = <<>>
    /\ score_call = NoScoreCall
    /\ NoLoop
    /\ message = "none"

\* no second board yet
NoBoard ==
    [loaded |-> FALSE, width |-> 0, height |-> 0, num_mines |-> 0,
     mine_positions |-> {}, first_move |-> TRUE, revealed |-> {},
     flagged |-> {}, game_over |-> FALSE, won |-> FALSE, game_time |-> 0,
     mines_remaining |-> 0, flag |-> FALSE, cells |-> {}]

\* the fields of MinesweeperLogic(w, h, n) after __init__, and nothing
\* saved, loaded or raised yet
NewBoard(w, h, n) ==
    /\ width = w
    /\ height = h
    /\ num_mines = n
    /\ grid = [y \in 0..(h - 1) |-> [x \in 0..(w - 1) |-> 0]]
    /\ mine_positions = {}
    /\ first_move = TRUE
    /\ revealed = {}
    /\ flagged = {}
    /\ game_over = FALSE
    /\ won = FALSE
    /\ mines_remaining = n
    /\ game_time = 0
    /\ last = [op |-> "__init__", x |-> 0, y |-> 0, flag |-> FALSE,
               cells |-> {}, pre_revealed |-> {}, pre_flagged |-> {},
               pre_mines_remaining |-> n]
    /\ snapshot = NoSnapshot
    /\ copy = NoBoard
    /\ calls_after = 0
    /\ out_of_range_calls = 0
    /\ value = 0
    /\ error = "none"
    /\ NoGame

\* a board constructed on its own, without a game started from the menu
Constructed(w, h, n) ==
    /\ NewBoard(w, h, n)
    /\ game_logic = "MinesweeperLogic"

\* MinesweeperLogic(width, height, num_mines)
Init ==
    \E w \in 1..MaxWidth, h \in 1..MaxHeight, n \in 0..MaxMines :
        Constructed(w, h, n)

\* --------------------------------------------------------------- actions
\* place_mines(x, y); random.sample may return any subset of the asked size
place_mines(x, y) ==
    /\ \E selected_positions \in SUBSET available_positions(x, y) :
          /\ Cardinality(selected_positions) = sample_size(x, y)
          /\ mine_positions' = selected_positions
          /\ grid' = computed_grid(selected_positions)
    /\ last' = Call("place_mines", x, y, FALSE, {})
    /\ UNCHANGED <<dims, revealed, flagged, status, mines_remaining>>

\* mutant: the revealed test is missing, a revealed cell can be flagged
toggle_flag_no_revealed_guard(x, y) ==
    /\ IF <<x, y>> \in flagged
       THEN /\ flagged' = flagged \ {<<x, y>>}
            /\ mines_remaining' = mines_remaining + 1
            /\ last' = Call("toggle_flag", x, y, FALSE, {})
       ELSE /\ Cardinality(flagged) < MaxFlags
            /\ flagged' = flagged \cup {<<x, y>>}
            /\ mines_remaining' = mines_remaining - 1
            /\ last' = Call("toggle_flag", x, y, TRUE, {})
    /\ UNCHANGED <<dims, layout, first_move, revealed, status>>

\* mutant: the mine counter is clamped at zero when a flag is placed
toggle_flag_clamped(x, y) ==
    /\ IF <<x, y>> \in revealed
       THEN /\ last' = Call("toggle_flag", x, y, FALSE, {})
            /\ UNCHANGED <<flagged, mines_remaining>>
       ELSE IF <<x, y>> \in flagged
       THEN /\ flagged' = flagged \ {<<x, y>>}
            /\ mines_remaining' = mines_remaining + 1
            /\ last' = Call("toggle_flag", x, y, FALSE, {})
       ELSE /\ Cardinality(flagged) < MaxFlags
            /\ flagged' = flagged \cup {<<x, y>>}
            /\ mines_remaining' =
                  (IF mines_remaining > 0 THEN mines_remaining - 1 ELSE 0)
            /\ last' = Call("toggle_flag", x, y, TRUE, {})
    /\ UNCHANGED <<dims, layout, first_move, revealed, status>>

\* mutant: removing a flag does not give the mine counter back
toggle_flag_keeps_counter(x, y) ==
    /\ IF <<x, y>> \in revealed
       THEN /\ last' = Call("toggle_flag", x, y, FALSE, {})
            /\ UNCHANGED <<flagged, mines_remaining>>
       ELSE IF <<x, y>> \in flagged
       THEN /\ flagged' = flagged \ {<<x, y>>}
            /\ mines_remaining' = mines_remaining
            /\ last' = Call("toggle_flag", x, y, FALSE, {})
       ELSE /\ Cardinality(flagged) < MaxFlags
            /\ flagged' = flagged \cup {<<x, y>>}
            /\ mines_remaining' = mines_remaining - 1
            /\ last' = Call("toggle_flag", x, y, TRUE, {})
    /\ UNCHANGED <<dims, layout, first_move, revealed, status>>

\* toggle_flag(x, y)
toggle_flag(x, y) ==
    /\ IF <<x, y>> \in revealed
       THEN /\ last' = Call("toggle_flag", x, y, FALSE, {})
            /\ UNCHANGED <<flagged, mines_remaining>>
       ELSE IF <<x, y>> \in flagged
       THEN /\ flagged' = flagged \ {<<x, y>>}
            /\ mines_remaining' = mines_remaining + 1
            /\ last' = Call("toggle_flag", x, y, FALSE, {})
       ELSE /\ Cardinality(flagged) < MaxFlags
            /\ flagged' = flagged \cup {<<x, y>>}
            /\ mines_remaining' = mines_remaining - 1
            /\ last' = Call("toggle_flag", x, y, TRUE, {})
    /\ UNCHANGED <<dims, layout, first_move, revealed, status>>

\* reveal_square(x, y)
reveal_square(x, y) ==
    /\ LET r == reveal_result(x, y)
       IN  /\ revealed' = r.revealed
           /\ last' = Call("reveal_square", x, y, FALSE, r.newly_revealed)
    /\ UNCHANGED <<dims, layout, first_move, flagged, status, mines_remaining>>

\* ========================================================== properties
\* Reference notions used by the properties, stated without the operators
\* of the model above.
Abs(n) == IF n < 0 THEN -n ELSE n

\* c and d are distinct cells that touch (8-neighbourhood, no wraparound)
Touch(c, d) == c # d /\ Abs(c[1] - d[1]) <= 1 /\ Abs(c[2] - d[2]) <= 1

\* the in-bounds 8-neighbours of c
Around(c) == {d \in Cells : Touch(c, d)}

\* the cell the last call was made on
LastCell == <<last.x, last.y>>

\* ------------------------------------------------------------------ C1
\* C1 (safe first click): after place_mines(x, y) neither (x, y) nor any
\* of its in-bounds 8-neighbours is in mine_positions, whichever mines the
\* random selection picked.
C1_SafeFirstClick ==
    last.op = "place_mines" =>
        /\ LastCell \notin mine_positions
        /\ \A d \in Around(LastCell) : d \notin mine_positions

\* place_mines has run on a cell that has neighbours and has placed a mine
C1_Witness ==
    /\ last.op = "place_mines"
    /\ Around(LastCell) # {}
    /\ mine_positions # {}

\* ------------------------------------------------------------------ C2
\* C2 (adjacency correctness): after place_mines, grid[y][x] is -1 exactly
\* for the cells of mine_positions, and every other cell holds the number
\* of mines among its in-bounds 8-neighbours; every value is in -1..8.
C2_AdjacencyCorrect ==
    ~first_move =>
        \A c \in Cells :
            /\ (grid[c[2]][c[1]] = -1) <=> (c \in mine_positions)
            /\ c \notin mine_positions =>
                  grid[c[2]][c[1]] = Cardinality(Around(c) \cap mine_positions)
            /\ grid[c[2]][c[1]] \in (-1)..8

\* mines are placed on a board with an interior cell, and a cell that
\* touches a mine only diagonally carries a positive count
C2_Witness ==
    /\ ~first_move
    /\ width >= 3 /\ height >= 3
    /\ \E c \in Cells, m \in mine_positions :
          /\ Touch(c, m) /\ c[1] # m[1] /\ c[2] # m[2]
          /\ grid[c[2]][c[1]] >= 1

\* ------------------------------------------------------------------ C3
\* C3 (placed mine count): after place_mines(x, y) the number of mine
\* positions is min(num_mines, width*height - |safeZone|), safeZone being
\* (x, y) and its in-bounds neighbours; with too few candidates fewer mines
\* are placed and the call still completes.
C3_PlacedMineCount ==
    last.op = "place_mines" =>
        LET safeZone == {LastCell} \cup Around(LastCell)
            candidates == width * height - Cardinality(safeZone)
        IN  Cardinality(mine_positions) =
                (IF num_mines <= candidates THEN num_mines ELSE candidates)

\* place_mines completed on a board with fewer candidates than num_mines
C3_Witness ==
    /\ last.op = "place_mines"
    /\ Cardinality(mine_positions) < num_mines

\* ------------------------------------------------------------------ C4
\* the value of a cell
Value(c) == grid[c[2]][c[1]]

\* the cells of Z connected to S through cells of Z (8-connectivity)
RECURSIVE Closure(_, _)
Closure(S, Z) ==
    LET T == S \cup {d \in Z : \E c \in S : Touch(c, d)}
    IN  IF T = S THEN S ELSE Closure(T, Z)

\* the maximal 8-connected region of zero-valued cells around c
ZeroRegion(c) == Closure({c}, {d \in Cells : Value(d) = 0})

\* the cells outside R that touch a cell of R
Border(R) == {d \in Cells \ R : \E c \in R : Touch(c, d)}

\* the last call was reveal_square on an unrevealed, unflagged zero cell
RevealedZeroCell ==
    /\ last.op = "reveal_square"
    /\ LastCell \notin last.pre_revealed
    /\ LastCell \notin last.pre_flagged
    /\ Value(LastCell) = 0

\* C4 as stated (flood-fill completeness): revealing an unrevealed zero
\* cell leaves revealed containing the whole maximal zero region around it
\* and every cell bordering the region, and adds nothing outside them
\* (stated here for boards whose mines are placed).
C4_Original ==
    (RevealedZeroCell /\ ~first_move) =>
        LET R == ZeroRegion(LastCell)
        IN  /\ (R \cup Border(R)) \subseteq revealed
            /\ (revealed \ last.pre_revealed) \subseteq (R \cup Border(R))

\* C4 as amended: revealing an unrevealed, unflagged zero cell adds to
\* revealed exactly the maximal 8-connected region around it of zero cells
\* that were unrevealed and unflagged before the call, together with every
\* unflagged cell bordering that region; it adds no cell outside the
\* maximal zero region and its border.
C4_FloodFill ==
    RevealedZeroCell =>
        LET Z == {d \in Cells : /\ Value(d) = 0
                                /\ d \notin last.pre_revealed
                                /\ d \notin last.pre_flagged}
            R == Closure({LastCell}, Z)
            B == {d \in Border(R) : d \notin last.pre_flagged}
            All == ZeroRegion(LastCell)
        IN  /\ revealed = last.pre_revealed \cup R \cup B
            /\ last.cells = (R \cup B) \ last.pre_revealed
            /\ (revealed \ last.pre_revealed) \subseteq (All \cup Border(All))

\* a flood on a mined board that ran over several zero cells while a
\* flagged zero cell of the region stayed hidden
C4_Witness ==
    /\ RevealedZeroCell
    /\ mine_positions # {}
    /\ Cardinality({c \in last.cells : Value(c) = 0}) >= 2
    /\ \E f \in flagged : f \in ZeroRegion(LastCell) /\ f \notin revealed

\* ------------------------------------------------------------------ C5
\* C5 (flag/reveal mutual exclusion): after every operation of any
\* sequence of reveal_square and toggle_flag calls no cell is both
\* revealed and flagged.
C5_FlagRevealExclusive == revealed \cap flagged = {}

\* a flood has just revealed a zero cell that touches a flagged cell
C5_Witness ==
    /\ last.op = "reveal_square"
    /\ Cardinality(last.cells) >= 2
    /\ \E f \in flagged, c \in last.cells : Value(c) = 0 /\ Touch(c, f)

\* ------------------------------------------------------------------ C6
\* C6 (loss): revealing an unrevealed, unflagged mine cell marks exactly
\* that cell revealed and sets the status to Lost (game_over set, won not
\* set); the status is Lost only if a mine cell is revealed.
C6_Loss ==
    /\ (/\ last.op = "reveal_square"
        /\ LastCell \in mine_positions
        /\ LastCell \notin last.pre_revealed
        /\ LastCell \notin last.pre_flagged)
       => (/\ revealed = last.pre_revealed \cup {LastCell}
           /\ game_over /\ ~won)
    /\ (game_over /\ ~won) => (revealed \cap mine_positions # {})

\* ------------------------------------------------------------------ C7
\* C7 (win status): after every reveal on a board with its mines placed,
\* the status is Won exactly when the number of revealed cells is
\* width*height minus the number of placed mines and no mine is revealed.
C7_WinStatus ==
    (last.op = "reveal_square" /\ ~first_move) =>
        ((won /\ ~game_over) <=>
            (/\ Cardinality(revealed) =
                    width * height - Cardinality(mine_positions)
             /\ revealed \cap mine_positions = {}))

\* ------------------------------------------------------------------ C8
\* C8 (reveal idempotence): reveal_square on a cell that is already
\* revealed or is flagged returns the empty set and changes none of
\* revealed, flagged, mines_remaining, grid and mine_positions.
C8_RevealIdempotent ==
    [][(/\ last'.op = "reveal_square"
        /\ (\/ <<last'.x, last'.y>> \in revealed
            \/ <<last'.x, last'.y>> \in flagged))
       => (/\ last'.cells = {}
           /\ UNCHANGED <<revealed, flagged, mines_remaining, grid,
                          mine_positions>>)]_vars

\* reveal_square was called on a cell revealed earlier, after placement
C8_Witness ==
    /\ last.op = "reveal_square"
    /\ ~first_move
    /\ LastCell \in last.pre_revealed

\* ------------------------------------------------------------------ C9
\* C9: toggle_flag on an already revealed cell returns False and leaves
\* flagged, mines_remaining and revealed unchanged.
C9_ToggleRevealedNoop ==
    [][(/\ last'.op = "toggle_flag"
        /\ <<last'.x, last'.y>> \in revealed)
       => (/\ last'.flag = FALSE
           /\ UNCHANGED <<flagged, mines_remaining, revealed>>)]_vars

\* toggle_flag was called on a revealed cell
C9_Witness ==
    /\ last.op = "toggle_flag"
    /\ LastCell \in last.pre_revealed

\* ----------------------------------------------------------------- C10
\* one toggle_flag call on an unrevealed cell: True and added when the cell
\* was unflagged, False and removed when it was flagged
ToggleStep ==
    (/\ last'.op = "toggle_flag"
     /\ <<last'.x, last'.y>> \notin revealed)
    => IF <<last'.x, last'.y>> \notin flagged
       THEN /\ last'.flag = TRUE
            /\ flagged' = flagged \cup {<<last'.x, last'.y>>}
       ELSE /\ last'.flag = FALSE
            /\ flagged' = flagged \ {<<last'.x, last'.y>>}

\* this step is the second of two consecutive toggle_flag calls on the
\* same unrevealed cell
SecondToggle ==
    /\ last.op = "toggle_flag"
    /\ last'.op = "toggle_flag"
    /\ last'.x = last.x /\ last'.y = last.y
    /\ LastCell \notin revealed

\* the two calls restored flagged and mines_remaining
Restored ==
    /\ flagged' = last.pre_flagged
    /\ mines_remaining' = last.pre_mines_remaining

\* C10 as stated (flag toggle round trip): each call on an unrevealed cell
\* adds (True) or removes (False) the flag, and two consecutive calls on
\* the same unrevealed cell return True then False and restore flagged and
\* mines_remaining.
C10_Original ==
    [][/\ ToggleStep
       /\ SecondToggle =>
             (last.flag = TRUE /\ last'.flag = FALSE /\ Restored)]_vars

\* C10 as amended: each call on an unrevealed cell adds (True) or removes
\* (False) the flag; two consecutive calls on the same unrevealed cell
\* restore flagged and mines_remaining, and return True then False when
\* the cell was unflagged before the first call (False then True when it
\* was flagged).
C10_FlagRoundTrip ==
    [][/\ ToggleStep
       /\ SecondToggle =>
             /\ Restored
             /\ IF LastCell \notin last.pre_flagged
                THEN last.flag = TRUE /\ last'.flag = FALSE
                ELSE last.flag = FALSE /\ last'.flag = TRUE]_vars

\* a flag placed on an unrevealed cell of a mined board has just been
\* taken off again, the counter is back at num_mines
C10_Witness ==
    /\ last.op = "toggle_flag"
    /\ ~first_move
    /\ LastCell \in last.pre_flagged
    /\ LastCell \notin revealed
    /\ last.flag = FALSE
    /\ flagged = {}
    /\ mines_remaining = num_mines

\* ----------------------------------------------------------------- C11
\* C11 (derived mine counter): after every operation of any sequence of
\* toggle_flag and reveal_square calls on a constructed board,
\* mines_remaining is num_mines minus the number of flagged cells, without
\* clamping.
C11_DerivedMineCounter == mines_remaining = num_mines - Cardinality(flagged)

\* more cells are flagged than the board has mines: the counter is negative
C11_Witness ==
    /\ last.op = "toggle_flag"
    /\ last.flag = TRUE
    /\ Cardinality(flagged) > num_mines
    /\ mines_remaining < 0

\* ----------------------------------------------------------------- C19
\* C19 (reveal result and monotonicity): the set returned by
\* reveal_square is exactly the set of cells that were not revealed before
\* the call and are revealed after it, and no call of any kind removes a
\* cell from revealed.
C19_RevealResult ==
    [][/\ (last'.op = "reveal_square") =>
             /\ last'.cells = revealed' \ revealed
             /\ revealed' = revealed \cup last'.cells
             /\ last'.cells \cap revealed = {}
       /\ revealed \subseteq revealed']_vars

\* a flood returned several cells on a board that already had revealed
\* cells, one of them touching the flood
C19_Witness ==
    /\ last.op = "reveal_square"
    /\ Cardinality(last.cells) >= 2
    /\ \E c \in last.pre_revealed, d \in last.cells : Touch(c, d)

\* ------------------------------------------------------- specification
\* the caller's placement step (handle_click): mines are placed once, while
\* first_move is set, and the caller then clears first_move
first_placement(x, y) ==
    /\ first_move
    /\ place_mines(x, y)
    /\ first_move' = FALSE

PlaceMines ==
    \E x \in 0..(width - 1), y \in 0..(height - 1) :
        first_placement(x, y) /\ UNCHANGED other

ToggleFlag ==
    \E x \in 0..(width - 1), y \in 0..(height - 1) :
        toggle_flag(x, y) /\ UNCHANGED other

RevealSquare ==
    \E x \in 0..(width - 1), y \in 0..(height - 1) :
        reveal_square(x, y) /\ UNCHANGED other

Next == PlaceMines \/ ToggleFlag \/ RevealSquare

Spec == Init /\ [][Next]_vars
\* ------------------------------------------------- snapshot and restore
\* list(a_set): the elements of a set as a list
RECURSIVE SetToSeq(_)
SetToSeq(S) ==
    IF S = {} THEN <<>>
    ELSE LET c == CHOOSE e \in S : TRUE
         IN  <<c>> \o SetToSeq(S \ {c})

\* get_save_state: the dict it returns.  The sets are copied into lists and
\* the scalars are copied; 'grid' is the list object self.grid itself, so
\* the dict holds no grid of its own (see snapshot_grid).  grid_at_call
\* remembers the grid the dict showed when it was returned.
get_save_state ==
    [taken |-> TRUE,
     width |-> width, height |-> height, num_mines |-> num_mines,
     mine_positions |-> SetToSeq(mine_positions),
     first_move |-> first_move,
     revealed |-> SetToSeq(revealed),
     flagged |-> SetToSeq(flagged),
     game_over |-> game_over, won |-> won,
     game_time |-> game_time,
     mines_remaining |-> mines_remaining,
     grid_at_call |-> grid]

\* state['grid'] of the dict returned by get_save_state: the list object
\* self.grid of the board, read now
snapshot_grid == grid

\* mutant: mines_remaining is not restored, the constructor's value stays
load_save_state_keeps_counter(state) ==
    [loaded |-> TRUE,
     width |-> state.width, height |-> state.height,
     num_mines |-> state.num_mines,
     mine_positions |-> Range(state.mine_positions),
     first_move |-> state.first_move,
     revealed |-> Range(state.revealed),
     flagged |-> Range(state.flagged),
     game_over |-> state.game_over, won |-> state.won,
     game_time |-> state.game_time,
     mines_remaining |-> state.num_mines,
     flag |-> FALSE, cells |-> {}]

\* load_save_state(state) on a new board: the fields it assigns.  The
\* lists of pairs become sets of tuples; self.grid becomes state['grid'],
\* the same list object (see copy_grid).
load_save_state(state) ==
    [loaded |-> TRUE,
     width |-> state.width, height |-> state.height,
     num_mines |-> state.num_mines,
     mine_positions |-> Range(state.mine_positions),
     first_move |-> state.first_move,
     revealed |-> Range(state.revealed),
     flagged |-> Range(state.flagged),
     game_over |-> state.game_over, won |-> state.won,
     game_time |-> state.game_time,
     mines_remaining |-> state.mines_remaining,
     flag |-> FALSE, cells |-> {}]

\* the grid of the second board: the list object it took from the dict
copy_grid == snapshot_grid

\* get_adjacent_squares on the second board
copy_adjacent_squares(x, y) ==
    LET Keep(o) == /\ 0 <= x + o[1] /\ x + o[1] < copy.width
                   /\ 0 <= y + o[2] /\ y + o[2] < copy.height
                   /\ o # <<0, 0>>
        kept == SelectSeq(Offsets, Keep)
    IN  [i \in 1..Len(kept) |-> <<x + kept[i][1], y + kept[i][2]>>]

\* the flood loop of reveal_square on the second board
RECURSIVE copy_flood(_, _, _)
copy_flood(stack, rev, newly) ==
    IF stack = <<>> THEN [revealed |-> rev, newly_revealed |-> newly]
    ELSE
        LET curr == stack[Len(stack)]
            rest == SubSeq(stack, 1, Len(stack) - 1)
            adj  == copy_adjacent_squares(curr[1], curr[2])
            Fresh(a) == a \notin rev /\ a \notin copy.flagged
            fresh == SelectSeq(adj, Fresh)
            Zero(a) == copy_grid[a[2]][a[1]] = 0
            push == SelectSeq(fresh, Zero)
        IN  copy_flood(rest \o push, rev \cup Range(fresh),
                       newly \cup Range(fresh))

\* reveal_square(x, y) on the second board
copy_reveal_square(x, y) ==
    LET r == IF <<x, y>> \in copy.revealed \/ <<x, y>> \in copy.flagged
             THEN [revealed |-> copy.revealed, newly_revealed |-> {}]
             ELSE IF copy_grid[y][x] = 0
                  THEN copy_flood(<< <<x, y>> >>,
                                  copy.revealed \cup {<<x, y>>}, {<<x, y>>})
                  ELSE [revealed |-> copy.revealed \cup {<<x, y>>},
                        newly_revealed |-> {<<x, y>>}]
    IN  [copy EXCEPT !.revealed = r.revealed,
                     !.cells = r.newly_revealed,
                     !.flag = FALSE]

\* toggle_flag(x, y) on the second board
copy_toggle_flag(x, y) ==
    IF <<x, y>> \in copy.revealed
    THEN [copy EXCEPT !.flag = FALSE, !.cells = {}]
    ELSE IF <<x, y>> \in copy.flagged
    THEN [copy EXCEPT !.flagged = @ \ {<<x, y>>},
                      !.mines_remaining = @ + 1,
                      !.flag = FALSE, !.cells = {}]
    ELSE [copy EXCEPT !.flagged = @ \cup {<<x, y>>},
                      !.mines_remaining = @ - 1,
                      !.flag = TRUE, !.cells = {}]

\* a board of the small sizes
InitSmall ==
    \E w \in 1..SmallWidth, h \in 1..SmallHeight, n \in 0..MaxMines :
        Constructed(w, h, n)

\* one more call since the snapshot, if there is one
CountCall ==
    IF snapshot.taken
    THEN /\ calls_after < MaxCallsAfterSnapshot
         /\ calls_after' = calls_after + 1
    ELSE UNCHANGED calls_after

\* calls on the board while no second board exists
BoardCall ==
    \E x \in 0..(width - 1), y \in 0..(height - 1) :
        /\ ~copy.loaded
        /\ \/ first_placement(x, y)
           \/ toggle_flag(x, y)
           \/ reveal_square(x, y)
        /\ CountCall
        /\ UNCHANGED <<gui, high_scores, loop, game_time, snapshot, copy, out_of_range_calls, value,
                       error>>

\* state = b.get_save_state(), taken once
GetSaveState ==
    /\ ~snapshot.taken
    /\ snapshot' = get_save_state
    /\ last' = Call("get_save_state", 0, 0, FALSE, {})
    /\ UNCHANGED <<dims, layout, first_move, revealed, flagged, status,
                   mines_remaining, gui, high_scores, loop, game_time, copy, calls_after,
                   out_of_range_calls, value, error>>

\* r = MinesweeperLogic(state['width'], state['height'], state['num_mines']);
\* r.load_save_state(state), right after the snapshot was taken
LoadSaveState ==
    /\ snapshot.taken
    /\ last.op = "get_save_state"
    /\ ~copy.loaded
    /\ copy' = load_save_state(snapshot)
    /\ last' = Call("load_save_state", 0, 0, FALSE, {})
    /\ UNCHANGED <<dims, layout, first_move, revealed, flagged, status,
                   mines_remaining, gui, high_scores, loop, game_time, snapshot, calls_after,
                   out_of_range_calls, value, error>>

\* the same toggle_flag call on both boards
BothToggleFlag ==
    \E x \in 0..(width - 1), y \in 0..(height - 1) :
        /\ copy.loaded
        /\ toggle_flag(x, y)
        /\ copy' = copy_toggle_flag(x, y)
        /\ CountCall
        /\ UNCHANGED <<gui, high_scores, loop, game_time, snapshot, out_of_range_calls, value, error>>

\* the same reveal_square call on both boards
BothRevealSquare ==
    \E x \in 0..(width - 1), y \in 0..(height - 1) :
        /\ copy.loaded
        /\ reveal_square(x, y)
        /\ copy' = copy_reveal_square(x, y)
        /\ CountCall
        /\ UNCHANGED <<gui, high_scores, loop, game_time, snapshot, out_of_range_calls, value, error>>

NextSnap ==
    \/ BoardCall
    \/ GetSaveState
    \/ LoadSaveState
    \/ BothToggleFlag
    \/ BothRevealSquare

SpecSnap == InitSmall /\ [][NextSnap]_vars

\* ----------------------------------------------------------------- C12
\* C12 (snapshot round trip): a board restored with
\* load_save_state(get_save_state(b)) has the same width, height,
\* num_mines, grid, mine_positions, first_move, revealed, flagged, status
\* and mines_remaining as b, and after every same reveal_square or
\* toggle_flag call on both boards the return values, revealed, flagged
\* and status are the same again.
C12_SnapshotRoundTrip ==
    copy.loaded =>
        /\ copy.width = width /\ copy.height = height
        /\ copy.num_mines = num_mines
        /\ copy_grid = grid
        /\ copy.mine_positions = mine_positions
        /\ copy.first_move = first_move
        /\ copy.revealed = revealed
        /\ copy.flagged = flagged
        /\ copy.game_over = game_over /\ copy.won = won
        /\ copy.mines_remaining = mines_remaining
        /\ last.op = "toggle_flag" => copy.flag = last.flag
        /\ last.op = "reveal_square" => copy.cells = last.cells

\* a board with mines, a flag and revealed cells was restored and a flood
\* then ran on both boards
C12_Witness ==
    /\ copy.loaded
    /\ mine_positions # {}
    /\ Len(snapshot.flagged) > 0
    /\ Len(snapshot.revealed) > 0
    /\ last.op = "reveal_square"
    /\ Cardinality(copy.cells) >= 2

\* ----------------------------------------------------------------- C13
\* C13 (snapshot immutability): the grid a snapshot shows stays the grid
\* it showed when get_save_state returned it, whatever is called on the
\* board afterwards (the other fields of the dict are copies that no call
\* reaches).
C13_SnapshotImmutable ==
    snapshot.taken => snapshot_grid = snapshot.grid_at_call
\* ------------------------------------------- coordinates outside the grid
\* the coordinates a caller may pass: one step beyond the grid on each side
AnyX == (-1)..width
AnyY == (-1)..height

\* (x, y) is a cell of the grid
InGrid(x, y) == 0 <= x /\ x < width /\ 0 <= y /\ y < height

\* a_list[i] of a list of length n raises IndexError
IndexError(n, i) == i < -n \/ i >= n

\* the position a_list[i] reads in a list of length n: a negative index
\* counts from the end
Position(n, i) == IF i < 0 THEN n + i ELSE i

\* self.grid[y][x] raises IndexError
GridIndexError(x, y) == IndexError(height, y) \/ IndexError(width, x)

\* self.grid[y][x]
GridAt(x, y) == grid[Position(height, y)][Position(width, x)]

\* one more call with a coordinate outside the grid, if (x, y) is outside
CountOutOfRange(x, y) ==
    IF InGrid(x, y)
    THEN UNCHANGED out_of_range_calls
    ELSE /\ out_of_range_calls < MaxOutOfRangeCalls
         /\ out_of_range_calls' = out_of_range_calls + 1

\* reveal_square(x, y) for any integers x, y: the cell is added to
\* revealed before self.grid[y][x] is read
reveal_square_any(x, y) ==
    /\ IF <<x, y>> \in revealed \/ <<x, y>> \in flagged
       THEN /\ UNCHANGED revealed
            /\ last' = Call("reveal_square", x, y, FALSE, {})
            /\ error' = "none"
       ELSE IF GridIndexError(x, y)
       THEN /\ revealed' = revealed \cup {<<x, y>>}
            /\ last' = Call("reveal_square", x, y, FALSE, {})
            /\ error' = "IndexError"
       ELSE IF GridAt(x, y) = 0
       THEN LET r == flood(<< <<x, y>> >>, revealed \cup {<<x, y>>},
                           {<<x, y>>})
            IN  /\ revealed' = r.revealed
                /\ last' = Call("reveal_square", x, y, FALSE,
                                r.newly_revealed)
                /\ error' = "none"
       ELSE /\ revealed' = revealed \cup {<<x, y>>}
            /\ last' = Call("reveal_square", x, y, FALSE, {<<x, y>>})
            /\ error' = "none"
    /\ UNCHANGED <<dims, layout, first_move, flagged, status,
                   mines_remaining>>

\* is_mine(x, y)
is_mine(x, y) ==
    /\ last' = Call("is_mine", x, y, <<x, y>> \in mine_positions, {})
    /\ error' = "none"
    /\ UNCHANGED <<dims, layout, first_move, revealed, flagged, status,
                   mines_remaining, value>>

\* get_value(x, y)
get_value(x, y) ==
    /\ last' = Call("get_value", x, y, FALSE, {})
    /\ IF GridIndexError(x, y)
       THEN error' = "IndexError" /\ UNCHANGED value
       ELSE error' = "none" /\ value' = GridAt(x, y)
    /\ UNCHANGED <<dims, layout, first_move, revealed, flagged, status,
                   mines_remaining>>

InitAny ==
    \E w \in 1..AnyWidth, h \in 1..AnyHeight, n \in 0..MaxMines :
        Constructed(w, h, n)

AnyPlaceMines ==
    \E x \in AnyX, y \in AnyY :
        /\ first_placement(x, y)
        /\ CountOutOfRange(x, y)
        /\ error' = "none"
        /\ UNCHANGED <<gui, high_scores, loop, game_time, snapshot, copy, calls_after, value>>

AnyToggleFlag ==
    \E x \in AnyX, y \in AnyY :
        /\ toggle_flag(x, y)
        /\ CountOutOfRange(x, y)
        /\ error' = "none"
        /\ UNCHANGED <<gui, high_scores, loop, game_time, snapshot, copy, calls_after, value>>

AnyRevealSquare ==
    \E x \in AnyX, y \in AnyY :
        /\ reveal_square_any(x, y)
        /\ CountOutOfRange(x, y)
        /\ UNCHANGED <<gui, high_scores, loop, game_time, snapshot, copy, calls_after, value>>

AnyIsMine ==
    \E x \in AnyX, y \in AnyY :
        /\ is_mine(x, y)
        /\ CountOutOfRange(x, y)
        /\ UNCHANGED <<gui, high_scores, loop, game_time, snapshot, copy, calls_after>>

AnyGetValue ==
    \E x \in AnyX, y \in AnyY :
        /\ get_value(x, y)
        /\ CountOutOfRange(x, y)
        /\ UNCHANGED <<gui, high_scores, loop, game_time, snapshot, copy, calls_after>>

NextAny ==
    \/ AnyPlaceMines
    \/ AnyToggleFlag
    \/ AnyRevealSquare
    \/ AnyIsMine
    \/ AnyGetValue

SpecAny == InitAny /\ [][NextAny]_vars

\* the last call was one of the five operations that take coordinates and
\* its coordinates were outside the grid
OutOfRangeCall ==
    /\ last.op \in {"place_mines", "toggle_flag", "reveal_square",
                    "is_mine", "get_value"}
    /\ ~(0 <= last.x /\ last.x < width /\ 0 <= last.y /\ last.y < height)

\* ----------------------------------------------------------------- C14
\* C14 (out-of-bounds rejection): every operation that takes coordinates
\* fails with an error when x is outside 0..width-1 or y is outside
\* 0..height-1, negative coordinates included (any raised exception is
\* counted as the failure here).
C14_OutOfBoundsRejected == OutOfRangeCall => error # "none"

\* ----------------------------------------------------------------- C15
\* C15 (atomic failure): when a board operation fails, revealed, flagged
\* and mines_remaining are what they were before the call.
C15_AtomicFailure ==
    error # "none" =>
        /\ revealed = last.pre_revealed
        /\ flagged = last.pre_flagged
        /\ mines_remaining = last.pre_mines_remaining
\* ------------------------------------------------------------ the window
\* MinesweeperGUI(): the menu is shown and no board exists yet
InitGUI ==
    /\ NewBoard(0, 0, 0)
    /\ game_logic = "None"

\* the number of scheduled callbacks after stop_timer(): the one timer_id
\* names is cancelled
stop_timer == IF timer_id THEN pending - 1 ELSE pending

\* check_win() once revealed is rev
check_win(rev) == Cardinality(rev) = width * height - num_mines

\* mutant: the mines are placed again on every click
click_placement_every_click(x, y) ==
    {selected_positions \in SUBSET available_positions(x, y) :
        Cardinality(selected_positions) = sample_size(x, y)}

\* the mine sets the board can hold after the first_move test of
\* handle_click(x, y): place_mines(x, y) runs only if first_move is set
click_placement(x, y) ==
    IF first_move
    THEN {selected_positions \in SUBSET available_positions(x, y) :
             Cardinality(selected_positions) = sample_size(x, y)}
    ELSE {mine_positions}

\* mutant: the loop body never runs, only the clicked cell is revealed
grid_flood_target_only(g, stack, rev, newly) ==
    [revealed |-> rev, newly_revealed |-> newly]

\* the loop of reveal_square on a board whose grid is g
RECURSIVE grid_flood(_, _, _, _)
grid_flood(g, stack, rev, newly) ==
    IF stack = <<>> THEN [revealed |-> rev, newly_revealed |-> newly]
    ELSE
        LET curr == stack[Len(stack)]
            rest == SubSeq(stack, 1, Len(stack) - 1)
            adj  == get_adjacent_squares(curr[1], curr[2])
            Fresh(a) == a \notin rev /\ a \notin flagged
            fresh == SelectSeq(adj, Fresh)
            Zero(a) == g[a[2]][a[1]] = 0
            push == SelectSeq(fresh, Zero)
        IN  grid_flood(g, rest \o push, rev \cup Range(fresh),
                       newly \cup Range(fresh))

\* reveal_square(x, y) on a board whose grid is g: the new revealed set and
\* the return value
grid_reveal_result(g, x, y) ==
    IF <<x, y>> \in revealed \/ <<x, y>> \in flagged
    THEN [revealed |-> revealed, newly_revealed |-> {}]
    ELSE IF g[y][x] = 0
         THEN grid_flood(g, << <<x, y>> >>, revealed \cup {<<x, y>>},
                         {<<x, y>>})
         ELSE [revealed |-> revealed \cup {<<x, y>>},
               newly_revealed |-> {<<x, y>>}]

\* start_game() with the difficulty (w, h, n): the timer named by
\* timer_id is cancelled, a new board is built and shown, and start_timer
\* runs update_timer once at once
start_game(w, h, n) ==
    /\ screen = "menu"
    /\ stop_timer + 1 <= MaxTimers
    /\ width' = w
    /\ height' = h
    /\ num_mines' = n
    /\ grid' = [y \in 0..(h - 1) |-> [x \in 0..(w - 1) |-> 0]]
    /\ mine_positions' = {}
    /\ first_move' = TRUE
    /\ revealed' = {}
    /\ flagged' = {}
    /\ game_over' = FALSE
    /\ won' = FALSE
    /\ mines_remaining' = n
    /\ game_time' = 0
    /\ game_logic' = "MinesweeperLogic"
    /\ screen' = "board"
    /\ gui_game_time' = 1
    /\ timer_id' = TRUE
    /\ pending' = stop_timer + 1
    /\ message' = "none"
    /\ error' = "none"
    /\ last' = Call("start_game", 0, 0, FALSE, {})
    /\ UNCHANGED <<high_scores, loop, snapshot, copy, calls_after, out_of_range_calls, value,
                   save_file>>

\* create_menu(), from the Back to Menu button
create_menu ==
    /\ screen = "board"
    /\ screen' = "menu"
    /\ timer_id' = FALSE
    /\ pending' = stop_timer
    /\ message' = "none"
    /\ error' = "none"
    /\ last' = Call("create_menu", 0, 0, FALSE, {})
    /\ UNCHANGED <<dims, layout, first_move, revealed, flagged, status,
                   mines_remaining, game_time, high_scores, loop, snapshot, copy, calls_after,
                   out_of_range_calls, value, game_logic, gui_game_time,
                   save_file>>

\* update_timer(), run by the event loop when a scheduled callback is due.
\* With the menu on the screen time_label is a destroyed widget: config
\* raises TclError and the callback is not scheduled again.
update_timer ==
    /\ pending > 0
    /\ IF game_logic = "None" \/ game_over
       THEN /\ pending' = pending - 1
            /\ UNCHANGED <<gui_game_time, timer_id, error>>
       ELSE /\ gui_game_time < MaxTime
            /\ gui_game_time' = gui_game_time + 1
            /\ IF screen = "board"
               THEN /\ timer_id' = TRUE
                    /\ UNCHANGED <<pending, error>>
               ELSE /\ pending' = pending - 1
                    /\ error' = "TclError"
                    /\ UNCHANGED timer_id
    /\ UNCHANGED <<dims, layout, first_move, revealed, flagged, status,
                   mines_remaining, last, game_time, high_scores, loop, snapshot, copy,
                   calls_after, out_of_range_calls, value, game_logic,
                   screen, save_file, events_after_save,
                   message>>

\* mutant: the board stays on the screen after the message box
outcome_screen_board_stays == "board"

\* the screen after game_over() or show_win_message(): the message box is
\* closed and create_menu() has replaced the board by the menu
outcome_screen == "menu"

\* handle_click(x, y): a left click on the button of cell (x, y).  last
\* records first_move as it was when the handler was entered and the
\* cells reveal_square returned.
\* mutant: the clicked cell is never taken for a mine
click_is_mine_never(x, y, mines) == FALSE

\* self.game_logic.is_mine(x, y), on the mines the board has at that point
click_is_mine(x, y, mines) == <<x, y>> \in mines

handle_click(x, y) ==
    /\ screen = "board"
    /\ error' = "none"
    /\ IF <<x, y>> \in flagged
       THEN /\ last' = Call("handle_click", x, y, first_move, {})
            /\ message' = "none"
            /\ UNCHANGED <<layout, first_move, revealed, screen, timer_id,
                           pending>>
       ELSE \E selected_positions \in click_placement(x, y) :
            LET g == IF first_move
                     THEN computed_grid(selected_positions)
                     ELSE grid
            IN  /\ mine_positions' = selected_positions
                /\ grid' = g
                /\ first_move' = FALSE
                /\ IF click_is_mine(x, y, selected_positions)
                   THEN /\ last' = Call("handle_click", x, y, first_move, {})
                        /\ message' = "Game Over"
                        /\ screen' = outcome_screen
                        /\ timer_id' = FALSE
                        /\ pending' = stop_timer
                        /\ UNCHANGED revealed
                   ELSE LET r == grid_reveal_result(g, x, y)
                        IN  /\ revealed' = r.revealed
                            /\ last' = Call("handle_click", x, y, first_move,
                                            r.newly_revealed)
                            /\ IF check_win(r.revealed)
                               THEN /\ message' = "Victory"
                                    /\ screen' = outcome_screen
                                    /\ timer_id' = FALSE
                                    /\ pending' = stop_timer
                               ELSE /\ message' = "none"
                                    /\ UNCHANGED <<screen, timer_id, pending>>
    /\ UNCHANGED <<dims, flagged, status, mines_remaining, game_time,
                   high_scores, loop, snapshot, copy, calls_after, out_of_range_calls, value,
                   game_logic, gui_game_time, save_file>>

\* handle_right_click(x, y): a right click on the button of cell (x, y)
handle_right_click(x, y) ==
    /\ screen = "board"
    /\ toggle_flag(x, y)
    /\ message' = "none"
    /\ error' = "none"
    /\ UNCHANGED <<game_time, high_scores, loop, snapshot, copy, calls_after,
                   out_of_range_calls, value, game_logic, screen,
                   gui_game_time, timer_id, pending, save_file>>
\* do_save() of the save dialog with a name typed into it (with no name it
\* only shows an error box): the dict of get_save_state, its grid
\* included, is written out by json.dump
do_save ==
    /\ screen = "board"
    /\ ~game_over
    /\ save_file.writes < MaxSaves
    /\ LET state == get_save_state
       IN  save_file' =
               [exists |-> TRUE,
                writes |-> save_file.writes + 1,
                edited |-> FALSE,
                width |-> state.width,
                height |-> state.height,
                num_mines |-> state.num_mines,
                grid |-> snapshot_grid,
                mine_positions |-> state.mine_positions,
                first_move |-> state.first_move,
                revealed |-> state.revealed,
                flagged |-> state.flagged,
                game_over |-> state.game_over,
                won |-> state.won,
                game_time |-> state.game_time,
                mines_remaining |-> state.mines_remaining]
    /\ message' = "Success"
    /\ error' = "none"
    /\ last' = Call("do_save", 0, 0, FALSE, {})
    /\ UNCHANGED <<dims, layout, first_move, revealed, flagged, status,
                   mines_remaining, game_time, high_scores, loop, snapshot, copy, calls_after,
                   out_of_range_calls, value, game_logic, screen,
                   gui_game_time, timer_id, pending>>

\* the save file after somebody changed it on disk: the width it states
\* is one less than the width of its grid, or its list of mines is empty
\* although its grid holds mines
edited_files(f) ==
    {[f EXCEPT !.edited = TRUE, !.width = f.width - 1] : w \in
         {f.width} \ {1}}
    \cup
    {[f EXCEPT !.edited = TRUE, !.mine_positions = <<>>] : m \in
         {f.mine_positions} \ {<<>>}}

\* the save file is changed on disk between do_save and do_load
edit_save_file ==
    /\ save_file.exists
    /\ ~save_file.edited
    /\ save_file' \in edited_files(save_file)
    /\ UNCHANGED <<dims, layout, first_move, revealed, flagged, status,
                   mines_remaining, last, game_time, high_scores, loop, snapshot, copy,
                   calls_after, out_of_range_calls, value, error, game_logic,
                   screen, gui_game_time, timer_id, pending, events_after_save,
                   message>>

\* update_board_from_save() raises IndexError for the board b read from a
\* file whose grid is g: a revealed cell outside g, or a revealed or
\* flagged cell without a button
update_board_raises(b, g) ==
    \/ \E c \in b.revealed :
          \/ c[2] \notin DOMAIN g
          \/ c[1] \notin DOMAIN g[c[2]]
    \/ \E c \in b.revealed \cup b.flagged :
          c[1] >= b.width \/ c[2] >= b.height

\* do_load() of the load dialog with the save file selected (with nothing
\* selected it only shows an error box).  A new board replaces game_logic
\* and takes every field of the file; the window is rebuilt;
\* update_board_from_save starts the timer without stopping the one that
\* runs.  An exception is caught and shown.
do_load ==
    /\ screen = "board"
    /\ save_file.exists
    /\ LET b == load_save_state(save_file)
       IN  /\ width' = b.width
           /\ height' = b.height
           /\ num_mines' = b.num_mines
           /\ grid' = save_file.grid
           /\ mine_positions' = b.mine_positions
           /\ first_move' = b.first_move
           /\ revealed' = b.revealed
           /\ flagged' = b.flagged
           /\ game_over' = b.game_over
           /\ won' = b.won
           /\ game_time' = b.game_time
           /\ mines_remaining' = b.mines_remaining
           /\ game_logic' = "MinesweeperLogic"
           /\ screen' = "board"
           /\ last' = Call("do_load", 0, 0, FALSE, {})
           /\ IF update_board_raises(b, save_file.grid)
              THEN /\ error' = "IndexError"
                   /\ message' = "Error"
                   /\ UNCHANGED <<gui_game_time, timer_id, pending>>
              ELSE /\ error' = "none"
                   /\ message' = "none"
                   /\ IF b.game_over
                      THEN UNCHANGED <<gui_game_time, timer_id, pending>>
                      ELSE /\ b.game_time + 1 <= MaxTime
                           /\ pending + 1 <= MaxTimers
                           /\ gui_game_time' = b.game_time + 1
                           /\ timer_id' = TRUE
                           /\ pending' = pending + 1
    /\ UNCHANGED <<high_scores, loop, snapshot, copy, calls_after, out_of_range_calls, value,
                   save_file>>

\* one more handler run since the save file was written, if it exists
CountEvent ==
    IF save_file.exists
    THEN /\ events_after_save < MaxEventsAfterSave
         /\ events_after_save' = events_after_save + 1
    ELSE UNCHANGED events_after_save

StartGame ==
    \E w \in 1..GuiWidth, h \in 1..GuiHeight, n \in 1..MaxMines :
        start_game(w, h, n) /\ CountEvent

CreateMenu == create_menu /\ CountEvent

UpdateTimer == update_timer

HandleClick ==
    \E x \in 0..(width - 1), y \in 0..(height - 1) :
        handle_click(x, y) /\ CountEvent

HandleRightClick ==
    \E x \in 0..(width - 1), y \in 0..(height - 1) :
        handle_right_click(x, y) /\ CountEvent

DoSave == do_save /\ events_after_save' = 0

EditSaveFile == edit_save_file

DoLoad == do_load /\ CountEvent

NextGUI ==
    \/ StartGame
    \/ CreateMenu
    \/ UpdateTimer
    \/ HandleClick
    \/ HandleRightClick
    \/ DoSave
    \/ EditSaveFile
    \/ DoLoad

SpecGUI == InitGUI /\ [][NextGUI]_vars

\* the grid holds no mine and no count
AllZero == \A y \in DOMAIN grid : \A x \in DOMAIN grid[y] : grid[y][x] = 0

\* the board fields of the window's game
board == <<dims, layout, first_move, revealed, flagged, status,
           mines_remaining, game_time>>

\* ----------------------------------------------------------------- C16
\* C16 (corrupt snapshot rejection): do_load of a save file whose grid
\* shape does not match its width, or whose mine list does not match its
\* grid, fails with an error, and the board that was active before the
\* load is still the board, unchanged.
C16_CorruptSnapshotRejected ==
    [][(last'.op = "do_load" /\ save_file.edited) =>
           (error' # "none" /\ UNCHANGED board)]_vars

\* ----------------------------------------------------------------- C17
\* C17 (single lazy placement): while first_move is set no mine is placed
\* and the grid is all zero; a left click on an unflagged cell clears
\* first_move; mine_positions and the grid change only in the left click
\* that clears first_move, in a load, which sets them to what the save
\* file holds, and when a new game is started.
C17_SingleLazyPlacement ==
    /\ [](first_move => (mine_positions = {} /\ AllZero))
    /\ [][/\ (last'.op = "handle_click" /\ last' # last
                 /\ <<last'.x, last'.y>> \notin flagged) => ~first_move'
          /\ layout' # layout =>
                \/ /\ last'.op = "handle_click"
                   /\ <<last'.x, last'.y>> \notin flagged
                   /\ first_move
                   /\ ~first_move'
                \/ /\ last'.op = "do_load"
                   /\ mine_positions' = Range(save_file.mine_positions)
                   /\ grid' = save_file.grid
                \/ /\ last'.op = "start_game"
                   /\ first_move'
      ]_vars

\* a board saved after its mines were placed has been loaded again, after a
\* click made in between
C17_Witness ==
    /\ last.op = "do_load"
    /\ events_after_save = 2
    /\ ~save_file.edited
    /\ ~first_move
    /\ mine_positions # {}
    /\ revealed # {}

\* ----------------------------------------------------------------- C18
\* C18 (first click opens a region): after the first left click of a
\* fresh board on an unflagged cell, the game is not lost, the clicked
\* cell has value 0, and the cell and all its unflagged neighbours are
\* revealed.
C18_FirstClickOpens ==
    (/\ last.op = "handle_click"
     /\ last.flag
     /\ LastCell \notin last.pre_flagged) =>
        /\ message # "Game Over"
        /\ Value(LastCell) = 0
        /\ LastCell \in revealed
        /\ Around(LastCell) \ flagged \subseteq revealed

\* a first click with a flagged neighbour, on a board where a mine was
\* placed
C18_Witness ==
    /\ last.op = "handle_click"
    /\ last.flag
    /\ LastCell \notin last.pre_flagged
    /\ Around(LastCell) \cap flagged # {}
    /\ mine_positions # {}
    /\ Cardinality(revealed) >= 2

\* ----------------------------------------------------------------- C20
\* C20 (elapsed time persistence): the game_time written to the save file
\* by do_save equals the seconds the display timer shows at that moment.
C20_ElapsedTimePersisted ==
    (last.op = "do_save" /\ message = "Success") =>
        save_file.game_time = gui_game_time
\* the last handler ended the game: it showed the loss or the win
Terminal == message \in {"Game Over", "Victory"}

\* ----------------------------------------------------------------- C21
\* C21 (terminal outcomes): once the window has shown a loss or a win, the
\* board is off the screen, and the board is not touched again: the next
\* handler that runs is start_game, which builds a new board.
C21_TerminalOutcomes ==
    /\ [](Terminal => screen = "menu")
    /\ [][Terminal =>
             \/ /\ last'.op = "start_game"
                /\ revealed' = {}
                /\ flagged' = {}
                /\ first_move'
             \/ /\ last' = last
                /\ UNCHANGED board
         ]_vars

\* a game was lost by a click on a mine after cells had been revealed
C21_Witness ==
    /\ message = "Game Over"
    /\ last.op = "handle_click"
    /\ LastCell \in mine_positions
    /\ revealed # {}
\* ------------------------------------------------------- the high scores
\* the length the list is cut to: self.scores[difficulty][:10]
TopScores == 10

\* the values datetime.now().strftime("%Y-%m-%d %H:%M") takes
Dates == {"2025-01-01 10:00", "2025-01-01 10:01"}

\* the score_entry dict add_score builds for a game on the Easy board
score_entry(time, date) ==
    [time |-> time, date |-> date, board_size |-> "9x9", mines |-> 10]

\* the position list[i] has after list.sort(key=lambda x: x["time"]): the
\* elements with a smaller time come first and, the sort being stable,
\* so do the earlier elements with the same time
position_by_time(list, i) ==
    1 + Cardinality({j \in 1..Len(list) :
                        \/ list[j].dict.time < list[i].dict.time
                        \/ /\ list[j].dict.time = list[i].dict.time
                           /\ j < i})

\* list.sort(key=lambda x: x["time"]): every element is moved to its
\* position
sort_by_time(list) ==
    CHOOSE sorted \in
        {[k \in 1..Len(list) |->
             list[CHOOSE i \in 1..Len(list) : position[i] = k]] :
         position \in {[i \in 1..Len(list) |->
                           position_by_time(list, i)]}} : TRUE

\* add_score("Easy", time, (9, 9), 10) at the date given.  The dicts of
\* the list are objects: is_new marks the one this call appended.
\* 'score_entry in self.scores[difficulty]' compares dicts by value.
add_score(time, date) ==
    \E appended \in
           {[i \in 1..(Len(scores) + 1) |->
                IF i <= Len(scores)
                THEN [dict |-> scores[i], is_new |-> FALSE]
                ELSE [dict |-> score_entry(time, date), is_new |-> TRUE]]} :
    \E sorted \in {sort_by_time(appended)} :
    \E cut \in {SubSeq(sorted, 1, Min(TopScores, Len(sorted)))} :
        /\ scores' = [i \in 1..Len(cut) |-> cut[i].dict]
        /\ score_call' =
               [called |-> TRUE,
                entry |-> score_entry(time, date),
                returned |-> \E i \in 1..Len(cut) :
                                 cut[i].dict = score_entry(time, date),
                kept |-> \E i \in 1..Len(cut) : cut[i].is_new]

AddScore ==
    \E time \in 1..MaxScoreTime, date \in Dates :
        /\ add_score(time, date)
        /\ UNCHANGED <<dims, layout, first_move, revealed, flagged, status,
                       mines_remaining, last, game_time, snapshot, copy,
                       calls_after, out_of_range_calls, value, error, gui,
                       loop>>

\* HighScores() with no scores file on disk, beside a window showing the
\* menu
InitScores == InitGUI

NextScores == AddScore

SpecScores == InitScores /\ [][NextScores]_vars

\* ----------------------------------------------------------------- C22
\* C22 (high-score result): the list holds at most 10 entries in
\* non-decreasing time order, and add_score returns True exactly when the
\* entry it appended is one of the entries left in the list.
C22_HighScoreResult ==
    /\ Len(scores) <= 10
    /\ \A i \in 1..(Len(scores) - 1) : scores[i].time <= scores[i + 1].time
    /\ score_call.called => (score_call.returned <=> score_call.kept)
\* ----------------------------------------------------------------- C23
\* C23 (win detection uses the placed mines): after a left click that
\* revealed cells, the window reports a win exactly when every cell
\* without a mine is revealed, |revealed| = width*height - |mine_positions|.
C23_WinDetection ==
    (last.op = "handle_click" /\ last.cells # {}) =>
        (message = "Victory" <=>
             Cardinality(revealed) =
                 width * height - Cardinality(mine_positions))
\* S with the neighbours of its zero-valued cells that were unrevealed
\* before the last call and are unflagged, taken again and again until
\* nothing is added
RECURSIVE Expansion(_)
Expansion(S) ==
    LET T == S \cup {d \in Cells :
                        /\ d \notin last.pre_revealed
                        /\ d \notin flagged
                        /\ \E z \in S : Value(z) = 0 /\ Touch(z, d)}
    IN  IF T = S THEN S ELSE Expansion(T)

\* the last call was reveal_square on an unrevealed, unflagged cell
\* without a mine
RevealedFreshCell ==
    /\ last.op = "reveal_square"
    /\ LastCell \notin last.pre_revealed
    /\ LastCell \notin last.pre_flagged
    /\ LastCell \notin mine_positions

\* ----------------------------------------------------------------- C24
\* C24 (flood expansion rule with flags): reveal_square on an unrevealed,
\* unflagged cell without a mine returns the least set that contains the
\* cell and, with every zero-valued cell in it, that cell's neighbours
\* that were unrevealed before the call and are unflagged; no flagged
\* cell is revealed, and flagged and mines_remaining stay as they were.
C24_FloodExpansionRule ==
    RevealedFreshCell =>
        /\ last.cells = Expansion({LastCell})
        /\ revealed = last.pre_revealed \cup last.cells
        /\ last.cells \cap flagged = {}
        /\ flagged = last.pre_flagged
        /\ mines_remaining = last.pre_mines_remaining

\* a flood on a mined board that revealed zero and non-zero cells and
\* stopped at a flag next to one of its zero cells
C24_Witness ==
    /\ RevealedFreshCell
    /\ mine_positions # {}
    /\ \E z \in last.cells : Value(z) = 0 /\ z # LastCell
    /\ \E d \in last.cells : Value(d) > 0
    /\ \E f \in flagged : \E z \in last.cells : Value(z) = 0 /\ Touch(z, f)

\* ============================================= the loop of reveal_square
\* reveal_square run one pass of its while loop at a time, from a board in
\* any state of revealed and flagged.

\* the grid place_mines leaves on a w x h board whose mines are 'mines'
placed_grid(w, h, mines) ==
    [y \in 0..(h - 1) |-> [x \in 0..(w - 1) |->
        IF <<x, y>> \in mines THEN -1
        ELSE Cardinality({m \in mines :
                 /\ m # <<x, y>>
                 /\ m[1] - x \in {-1, 0, 1}
                 /\ m[2] - y \in {-1, 0, 1}})]]

InitLoop ==
    \E w \in 1..LoopWidth, h \in 1..LoopHeight :
      \E mines \in SUBSET ((0..(w - 1)) \X (0..(h - 1))) :
        \E rev \in SUBSET ((0..(w - 1)) \X (0..(h - 1))) :
          \E flg \in SUBSET ((0..(w - 1)) \X (0..(h - 1))) :
            /\ Cardinality(mines) <= MaxMines
            /\ Cardinality(flg) <= MaxFlags
            /\ width = w
            /\ height = h
            /\ num_mines = Cardinality(mines)
            /\ grid = placed_grid(w, h, mines)
            /\ mine_positions = mines
            /\ first_move = FALSE
            /\ revealed = rev
            /\ flagged = flg
            /\ game_over = FALSE
            /\ won = FALSE
            /\ mines_remaining = Cardinality(mines) - Cardinality(flg)
            /\ game_time = 0
            /\ last = [op |-> "__init__", x |-> 0, y |-> 0, flag |-> FALSE,
                       cells |-> {}, pre_revealed |-> rev,
                       pre_flagged |-> flg,
                       pre_mines_remaining |->
                           Cardinality(mines) - Cardinality(flg)]
            /\ snapshot = NoSnapshot
            /\ copy = NoBoard
            /\ calls_after = 0
            /\ out_of_range_calls = 0
            /\ value = 0
            /\ error = "none"
            /\ NoGame
            /\ game_logic = "MinesweeperLogic"

\* mutant: the neighbours test leaves out 'not in self.revealed'
fresh_neighbours_unmarked(curr, rev) ==
    LET Fresh(a) == a \notin flagged
    IN  SelectSeq(get_adjacent_squares(curr[1], curr[2]), Fresh)

\* the neighbours of curr that pass the test of the inner loop, in list order
fresh_neighbours(curr, rev) ==
    LET Fresh(a) == a \notin rev /\ a \notin flagged
    IN  SelectSeq(get_adjacent_squares(curr[1], curr[2]), Fresh)

\* mutant: the loop ends at the first popped cell that pushes nothing
loop_continues_while_pushing(rest, push) == push # <<>>

\* 'while stack': the list after the pass is rest followed by push
loop_continues(rest, push) == rest \o push # <<>>

\* reveal_square(x, y) up to its while loop
enter_reveal_square(x, y) ==
    /\ pc = "idle"
    /\ IF <<x, y>> \in revealed \/ <<x, y>> \in flagged
       THEN /\ pc' = "done"
            /\ last' = Call("reveal_square", x, y, FALSE, {})
            /\ UNCHANGED <<revealed, frontier, loop_newly, pushed>>
       ELSE /\ revealed' = revealed \cup {<<x, y>>}
            /\ loop_newly' = {<<x, y>>}
            /\ last' = Call("reveal_square", x, y, FALSE, {<<x, y>>})
            /\ IF grid[y][x] = 0
               THEN /\ frontier' = << <<x, y>> >>
                    /\ pushed' = << <<x, y>> >>
                    /\ pc' = "loop"
               ELSE /\ pc' = "done"
                    /\ UNCHANGED <<frontier, pushed>>
    /\ UNCHANGED <<dims, layout, first_move, flagged, status, mines_remaining,
                   game_time, snapshot, copy, calls_after, out_of_range_calls,
                   value, error, gui, high_scores, iterations, code_order>>

\* one pass of the while loop, the cell at index i taken off the list
loop_pass(i) ==
    /\ pc = "loop"
    /\ iterations <= width * height
    /\ LET curr == frontier[i]
           rest == SubSeq(frontier, 1, i - 1)
                       \o SubSeq(frontier, i + 1, Len(frontier))
           Zero(a) == grid[a[2]][a[1]] = 0
       IN  \E fresh \in {fresh_neighbours(curr, revealed)} :
             \E push \in {SelectSeq(fresh, Zero)} :
               /\ revealed' = revealed \cup Range(fresh)
               /\ loop_newly' = loop_newly \cup Range(fresh)
               /\ frontier' = rest \o push
               /\ pushed' = pushed \o push
               /\ pc' = IF loop_continues(rest, push) THEN "loop" ELSE "done"
               /\ last' = [last EXCEPT !.cells = loop_newly \cup Range(fresh)]
    /\ iterations' = iterations + 1
    /\ code_order' = (code_order /\ i = Len(frontier))
    /\ UNCHANGED <<dims, layout, first_move, flagged, status, mines_remaining,
                   game_time, snapshot, copy, calls_after, out_of_range_calls,
                   value, error, gui, high_scores>>

EnterRevealSquare == \E c \in Cells : enter_reveal_square(c[1], c[2])

\* curr = stack.pop()
PopLast == loop_pass(Len(frontier))

\* another cell of the list is taken instead
PopOther == \E i \in 1..(Len(frontier) - 1) : loop_pass(i)

\* the loop as the source runs it
NextLoop == EnterRevealSquare \/ PopLast
SpecLoop == InitLoop /\ [][NextLoop]_vars /\ WF_vars(NextLoop)

\* the loop with the list taken in any order
NextFrontier == EnterRevealSquare \/ PopLast \/ PopOther
SpecFrontier == InitLoop /\ [][NextFrontier]_vars

\* ----------------------------------------------------------------- C25
\* C25 (flood fill terminates): from every state of revealed and flagged a
\* reveal_square call ends; no cell is put on the list more than once, so
\* the while loop makes at most width * height passes.
C25_FloodTerminates ==
    /\ [](/\ iterations <= width * height
          /\ \A i, j \in 1..Len(pushed) : pushed[i] = pushed[j] => i = j)
    /\ (pc = "loop") ~> (pc = "done")

C25_Witness ==
    /\ pc = "done"
    /\ iterations >= 3
    /\ Len(pushed) = iterations
    /\ revealed # Cells

\* ----------------------------------------------------------------- C26
\* C26 (the order of the list does not matter): when the call ends, the
\* returned set and the revealed set are those the source's order gives,
\* whichever cell of the list each pass took.
C26_OrderIndependent ==
    (pc = "done" /\ last.cells # {}) =>
        /\ Value(LastCell) # 0 =>
               /\ last.cells = {LastCell}
               /\ revealed = last.pre_revealed \cup {LastCell}
        /\ Value(LastCell) = 0 =>
               /\ flood(<<LastCell>>, last.pre_revealed \cup {LastCell},
                        {LastCell})
                    = [revealed |-> revealed, newly_revealed |-> last.cells]
               /\ loop_newly = last.cells

C26_Witness ==
    /\ pc = "done"
    /\ ~code_order
    /\ iterations >= 3
    /\ Cardinality(last.cells) >= 4

\* ----------------------------------------------------------------- C27
\* the game played through its click handlers only: no save file, no timer
NextPlay == StartGame \/ HandleClick \/ HandleRightClick
SpecPlay == InitGUI /\ [][NextPlay]_vars

\* C27 (no mine is revealed by play): in every state reached through the
\* click handlers revealed holds no mine; a left click on an unflagged mine
\* ends the game and leaves revealed as it was; the cells a left click on
\* another cell reveals hold no mine.
C27_NoMineRevealed ==
    /\ revealed \cap mine_positions = {}
    /\ (/\ last.op = "handle_click"
        /\ LastCell \in mine_positions
        /\ LastCell \notin flagged) =>
           /\ message = "Game Over"
           /\ revealed = last.pre_revealed
           /\ last.cells = {}
    /\ (last.op = "handle_click" /\ LastCell \notin mine_positions) =>
           last.cells \cap mine_positions = {}

C27_Witness ==
    /\ last.op = "handle_click"
    /\ ~last.flag
    /\ LastCell \in mine_positions
    /\ LastCell \notin flagged
    /\ Cardinality(revealed) >= 2
    /\ \E c \in revealed : Value(c) = 0

\* a later left click that floods next to a mine without revealing it
C27_FloodWitness ==
    /\ last.op = "handle_click"
    /\ last.cells # {}
    /\ mine_positions # {}
    /\ \E c \in last.cells : \E m \in mine_positions : Touch(c, m)

\* ----------------------------------------------------------------- C28
\* C28 (single timer chain): at every moment at most one update_timer
\* callback is scheduled, across starting a game, loading a save while a
\* game runs and returning to the menu; once stop_timer has cleared
\* timer_id no update_timer callback is pending.
C28_SingleTimerChain ==
    /\ pending <= 1
    /\ ~timer_id => pending = 0
====
